---- MODULE Spec2Model ----
(***************************************************************************)
(* Model of wood_cutter.py: the Panel free-rectangle packer (class Panel,   *)
(* try_place) and the greedy purchase optimizer (optimize_purchase).        *)
(*                                                                          *)
(* Two clients drive the code.  A direct client constructs one Panel and     *)
(* calls try_place with arbitrary pieces (pc = "panel").  optimize_purchase  *)
(* is modelled one while-loop iteration per step (pc = "start", "while",     *)
(* "done", "raised"); inside an iteration every catalog board is simulated   *)
(* on a fresh Panel with the same try_place.                                 *)
(*                                                                          *)
(* Tuples keep the layout of the source:                                     *)
(*   free rectangle  <<fx, fy, fw, fh>>                                      *)
(*   panel placement <<x, y, w, h, rotated>>                                 *)
(*   plan placement  <<x, y, w, h, board_number, rotated>>                   *)
(*   piece           <<w, h>>     required piece <<w, h, qty>>               *)
(*   board           <<board_width, board_height, cost>>                     *)
(***************************************************************************)
EXTENDS Integers, Sequences, FiniteSets, TLC

VARIABLES pc, required_pieces, available_boards, pieces, total_cost,
          board_solution, cutting_plan, board_count, panel, arg, pos

vars == <<pc, required_pieces, available_boards, pieces, total_cost,
          board_solution, cutting_plan, board_count, panel, arg, pos>>

(***************************************************************************)
(* Bounds of the checked instances.                                         *)
(***************************************************************************)
(* optimize_purchase: the expanded pieces have total area <= MaxTotalArea,   *)
(* the board types of a catalog have total area <= MaxCatalogArea and total *)
(* unit cost <= MaxCatalogCost.  Direct Panel use: the board has area <=    *)
(* PanelMaxArea and every piece area <= PanelMaxPieceArea.                  *)
MaxTotalArea == 4
MaxCatalogArea == 4
MaxCatalogCost == 3
PanelMaxArea == 8
PanelMaxPieceArea == 4

(* Python's None, for a position (try_place's return) and for best_panel. *)
None == <<>>

NoPanel == [width |-> 0, height |-> 0, free_rectangles |-> <<>>, placements |-> <<>>]

(***************************************************************************)
(* class Panel                                                              *)
(***************************************************************************)
Panel(width, height) ==
    [width |-> width, height |-> height,
     free_rectangles |-> << <<0, 0, width, height>> >>,
     placements |-> <<>>]

(* The element of a one-element set.  Only({e(x) : x \in {v}}) is e(v) with *)
(* v computed once, the way a Python local holds a value.                   *)
Only(S) == CHOOSE x \in S : TRUE

(* del s[i], 1-based *)
RemoveAt(s, i) == SubSeq(s, 1, i - 1) \o SubSeq(s, i + 1, Len(s))

(* The inner for-loop of try_place: the first index, in list order, of a    *)
(* free rectangle with fw >= w and fh >= h; 0 when the loop falls through.  *)
RECURSIVE first_fit(_, _, _, _)
first_fit(free, w, h, i) ==
    IF i > Len(free) THEN 0
    ELSE IF free[i][3] >= w /\ free[i][4] >= h THEN i
    ELSE first_fit(free, w, h, i + 1)

(* Mutant: the right strip takes the full leftover height, as a naive split *)
(* would.                                                                   *)
place_at_tall_right(p, i, w, h, rotated) ==
    LET f == p.free_rectangles[i]
        fx == f[1]
        fy == f[2]
        fw == f[3]
        fh == f[4]
        removed == RemoveAt(p.free_rectangles, i)
        right == IF fw - w > 0
                 THEN Append(removed, <<fx + w, fy, fw - w, fh>>)
                 ELSE removed
        below == IF fh - h > 0
                 THEN Append(right, <<fx, fy + h, fw, fh - h>>)
                 ELSE right
    IN  [panel |-> [p EXCEPT !.free_rectangles = below,
                             !.placements = Append(@, <<fx, fy, w, h, rotated>>)],
         pos |-> <<fx, fy, w, h, rotated>>]

(* Mutant: the used free rectangle is kept in the list (the del is lost).   *)
place_at_keep_used(p, i, w, h, rotated) ==
    LET f == p.free_rectangles[i]
        fx == f[1]
        fy == f[2]
        fw == f[3]
        fh == f[4]
        removed == p.free_rectangles
        right == IF fw - w > 0
                 THEN Append(removed, <<fx + w, fy, fw - w, h>>)
                 ELSE removed
        below == IF fh - h > 0
                 THEN Append(right, <<fx, fy + h, fw, fh - h>>)
                 ELSE right
    IN  [panel |-> [p EXCEPT !.free_rectangles = below,
                             !.placements = Append(@, <<fx, fy, w, h, rotated>>)],
         pos |-> <<fx, fy, w, h, rotated>>]

(* Mutant: an exactly filled rectangle leaves a zero-size entry behind      *)
(* (>= for > in the right-strip test), so the list never shrinks.           *)
place_at_keep_empty(p, i, w, h, rotated) ==
    LET f == p.free_rectangles[i]
        fx == f[1]
        fy == f[2]
        fw == f[3]
        fh == f[4]
        removed == RemoveAt(p.free_rectangles, i)
        right == IF fw - w >= 0
                 THEN Append(removed, <<fx + w, fy, fw - w, h>>)
                 ELSE removed
        below == IF fh - h > 0
                 THEN Append(right, <<fx, fy + h, fw, fh - h>>)
                 ELSE right
    IN  [panel |-> [p EXCEPT !.free_rectangles = below,
                             !.placements = Append(@, <<fx, fy, w, h, rotated>>)],
         pos |-> <<fx, fy, w, h, rotated>>]

(* The body of `if fw >= w and fh >= h:` for the matched rectangle i:       *)
(* record the placement at (fx, fy), delete the rectangle, append the right *)
(* strip and then the strip below.                                          *)
place_at(p, i, w, h, rotated) ==
    LET f == p.free_rectangles[i]
        fx == f[1]
        fy == f[2]
        fw == f[3]
        fh == f[4]
        removed == RemoveAt(p.free_rectangles, i)
        right == IF fw - w > 0
                 THEN Append(removed, <<fx + w, fy, fw - w, h>>)
                 ELSE removed
        below == IF fh - h > 0
                 THEN Append(right, <<fx, fy + h, fw, fh - h>>)
                 ELSE right
    IN  [panel |-> [p EXCEPT !.free_rectangles = below,
                             !.placements = Append(@, <<fx, fy, w, h, rotated>>)],
         pos |-> <<fx, fy, w, h, rotated>>]

(* Mutant: the rotated orientation is tried first.                          *)
try_place_rotated_first(p, piece_width, piece_height) ==
    LET r == first_fit(p.free_rectangles, piece_height, piece_width, 1)
        u == first_fit(p.free_rectangles, piece_width, piece_height, 1)
    IN  IF r > 0 THEN place_at(p, r, piece_height, piece_width, TRUE)
        ELSE IF u > 0 THEN place_at(p, u, piece_width, piece_height, FALSE)
        ELSE [panel |-> p, pos |-> None]

(* Mutant: the rotated orientation is never tried.                          *)
try_place_no_rotation(p, piece_width, piece_height) ==
    LET u == first_fit(p.free_rectangles, piece_width, piece_height, 1)
    IN  IF u > 0 THEN place_at(p, u, piece_width, piece_height, FALSE)
        ELSE [panel |-> p, pos |-> None]

(* Mutant: the fit test looks at the width only.                            *)
try_place_width_only(p, piece_width, piece_height) ==
    LET u == first_fit(p.free_rectangles, piece_width, 0, 1)
        r == first_fit(p.free_rectangles, piece_height, 0, 1)
    IN  IF u > 0 THEN place_at(p, u, piece_width, piece_height, FALSE)
        ELSE IF r > 0 THEN place_at(p, r, piece_height, piece_width, TRUE)
        ELSE [panel |-> p, pos |-> None]

(* Panel.try_place: `for rotated in [False, True]` around the scan; returns *)
(* the panel after the call and the returned position (None for no fit).    *)
try_place(p, piece_width, piece_height) ==
    LET u == first_fit(p.free_rectangles, piece_width, piece_height, 1)
        r == first_fit(p.free_rectangles, piece_height, piece_width, 1)
    IN  IF u > 0 THEN place_at(p, u, piece_width, piece_height, FALSE)
        ELSE IF r > 0 THEN place_at(p, r, piece_height, piece_width, TRUE)
        ELSE [panel |-> p, pos |-> None]

(***************************************************************************)
(* optimize_purchase                                                        *)
(***************************************************************************)
Area(p) == p[1] * p[2]

(* Lines 64-68: each (w, h, qty) becomes qty copies of (w, h), in order.    *)
RECURSIVE expand(_)
expand(required) ==
    IF required = <<>> THEN <<>>
    ELSE LET w == Head(required)[1]
             h == Head(required)[2]
             qty == Head(required)[3]
         IN  [k \in 1..qty |-> <<w, h>>] \o expand(Tail(required))

(* list.sort(key = area, reverse = True) is stable: among equal areas the   *)
(* input order is kept.  Insertion of p behind every entry of area >= p's.  *)
RECURSIVE insert_by_area(_, _)
insert_by_area(sorted, p) ==
    IF sorted = <<>> THEN <<p>>
    ELSE IF Area(Head(sorted)) >= Area(p)
         THEN <<Head(sorted)>> \o insert_by_area(Tail(sorted), p)
         ELSE <<p>> \o sorted

RECURSIVE sort_by_area(_)
sort_by_area(ps) ==
    IF ps = <<>> THEN <<>>
    ELSE Only({insert_by_area(sorted, ps[Len(ps)]) :
               sorted \in {sort_by_area(SubSeq(ps, 1, Len(ps) - 1))}})

(* Lines 87-93: a fresh Panel of the board type, try_place for every        *)
(* pending piece in order, collecting the (1-based) indices that packed.    *)
RECURSIVE simulate_from(_, _, _, _)
simulate_from(p, ps, i, packed_indices) ==
    IF i > Len(ps) THEN [panel |-> p, packed_indices |-> packed_indices]
    ELSE Only({simulate_from(r.panel, ps, i + 1,
                             IF r.pos # None THEN Append(packed_indices, i)
                             ELSE packed_indices) :
               r \in {try_place(p, ps[i][1], ps[i][2])}})

simulate(board, ps) == simulate_from(Panel(board[1], board[2]), ps, 1, <<>>)

(* Line 97: sum of the areas of the packed pieces.                          *)
RECURSIVE packed_area(_, _)
packed_area(ps, packed_indices) ==
    IF packed_indices = <<>> THEN 0
    ELSE Area(ps[Head(packed_indices)]) + packed_area(ps, Tail(packed_indices))

(* Mutant: <= for <, so the last of equally efficient boards wins.          *)
efficiency_less_or_equal(cost, area, best_cost, best_area) ==
    cost * best_area <= best_cost * area

(* Lines 98-99: efficiency = cost / packed_area and the test                *)
(* efficiency < best_efficiency.  The two quotients are compared by cross   *)
(* multiplication: with positive areas c1/a1 < c2/a2 is c1*a2 < c2*a1, and  *)
(* for integers of this size the correctly rounded float quotients of two   *)
(* different rationals differ.                                              *)
efficiency_less(cost, area, best_cost, best_area) ==
    cost * best_area < best_cost * area

(* Lines 79-103: the loop over available_boards.  best is None or           *)
(* <<[board, panel, packed_indices, packed_area]>> (best_board, best_panel, *)
(* best_packed_indices and the two terms of best_efficiency).               *)
RECURSIVE select_best(_, _, _, _)
select_best(boards, ps, k, best) ==
    IF k > Len(boards) THEN best
    ELSE Only({select_best(boards, ps, k + 1, next_best) :
               next_best \in
                   {IF sim.packed_indices = <<>> THEN best
                    ELSE IF best = None
                            \/ efficiency_less(boards[k][3],
                                               packed_area(ps, sim.packed_indices),
                                               best[1].board[3], best[1].packed_area)
                         THEN <<[board |-> boards[k], panel |-> sim.panel,
                                 packed_indices |-> sim.packed_indices,
                                 packed_area |-> packed_area(ps, sim.packed_indices)]>>
                         ELSE best :
                    sim \in {simulate(boards[k], ps)}}})

(* Mutant: the placements are tagged before board_count is incremented.     *)
tag_placements_stale_count(placements, n) ==
    [k \in 1..Len(placements) |->
        <<placements[k][1], placements[k][2], placements[k][3],
          placements[k][4], n - 1, placements[k][5]>>]

(* Lines 117-119: the best panel's placements, tagged with board_count.     *)
tag_placements(placements, n) ==
    [k \in 1..Len(placements) |->
        <<placements[k][1], placements[k][2], placements[k][3],
          placements[k][4], n, placements[k][5]>>]

(* Mutant: only the highest packed index is deleted (the loop body runs    *)
(* once).                                                                   *)
remove_packed_only_last(ps, packed_indices) ==
    IF packed_indices = <<>> THEN ps
    ELSE RemoveAt(ps, packed_indices[Len(packed_indices)])

(* Mutant: nothing is deleted from the pending list.                        *)
remove_packed_nothing(ps, packed_indices) == ps

(* Lines 122-123: del pieces[i] for the packed indices, highest first.      *)
RECURSIVE remove_packed(_, _)
remove_packed(ps, packed_indices) ==
    IF packed_indices = <<>> THEN ps
    ELSE Only({remove_packed(rest, SubSeq(packed_indices, 1, Len(packed_indices) - 1)) :
               rest \in {RemoveAt(ps, packed_indices[Len(packed_indices)])}})

(***************************************************************************)
(* Inputs of the checked instances.                                         *)
(***************************************************************************)
PieceSpecs(a) ==
    {<<w, h, qty>> : w \in 1..a, h \in 1..a, qty \in 1..a}

RECURSIVE RequiredLists(_)
RequiredLists(a) ==
    {<<>>} \cup
    UNION {{<<s>> \o rest : rest \in RequiredLists(a - s[1] * s[2] * s[3])} :
           s \in {t \in PieceSpecs(a) : t[1] * t[2] * t[3] <= a}}

BoardTypes(a, c) ==
    {<<w, h, cost>> : w \in 1..a, h \in 1..a, cost \in 1..c}

RECURSIVE Catalogs(_, _)
Catalogs(a, c) ==
    {<<>>} \cup
    UNION {{<<b>> \o rest : rest \in Catalogs(a - b[1] * b[2], c - b[3])} :
           b \in {t \in BoardTypes(a, c) : t[1] * t[2] <= a}}

Rectangles(a) == {<<w, h>> \in (1..a) \X (1..a) : w * h <= a}

(***************************************************************************)
(* State machine                                                            *)
(***************************************************************************)
Idle ==
    /\ pieces = <<>>
    /\ total_cost = 0
    /\ board_solution = <<>>
    /\ cutting_plan = <<>>
    /\ board_count = 0

(* A client that constructs one Panel and calls try_place on it.            *)
InitPanel ==
    /\ pc = "panel"
    /\ required_pieces = <<>>
    /\ available_boards = <<>>
    /\ Idle
    /\ \E board \in Rectangles(PanelMaxArea) : panel = Panel(board[1], board[2])
    /\ arg = None
    /\ pos = None

(* A call of optimize_purchase(required_pieces, available_boards).          *)
InitOptimize ==
    /\ pc = "start"
    /\ required_pieces \in RequiredLists(MaxTotalArea)
    /\ available_boards \in Catalogs(MaxCatalogArea, MaxCatalogCost)
    /\ Idle
    /\ panel = NoPanel
    /\ arg = None
    /\ pos = None

Init == InitPanel \/ InitOptimize

(* panel.try_place(piece_width, piece_height) by the direct client.         *)
TryPlace ==
    /\ pc = "panel"
    /\ \E piece \in Rectangles(PanelMaxPieceArea) :
        LET r == try_place(panel, piece[1], piece[2])
        IN  /\ panel' = r.panel
            /\ pos' = r.pos
            /\ arg' = piece
    /\ UNCHANGED <<pc, required_pieces, available_boards, pieces, total_cost,
                   board_solution, cutting_plan, board_count>>

(* Lines 64-75: expansion, sort and the zeroed accumulators.                *)
Start ==
    /\ pc = "start"
    /\ pieces' = sort_by_area(expand(required_pieces))
    /\ total_cost' = 0
    /\ board_solution' = <<>>
    /\ cutting_plan' = <<>>
    /\ board_count' = 0
    /\ pc' = "while"
    /\ UNCHANGED <<required_pieces, available_boards, panel, arg, pos>>

(* Lines 78-124: one iteration of `while pieces:`; it raises ValueError     *)
(* when no board type packed anything and commits the best board otherwise. *)
Iteration ==
    /\ pc = "while"
    /\ pieces # <<>>
    /\ \E best \in {select_best(available_boards, pieces, 1, None)} :
           IF best = None
           THEN /\ pc' = "raised"
                /\ panel' = NoPanel
                /\ UNCHANGED <<pieces, total_cost, board_solution, cutting_plan,
                               board_count>>
           ELSE /\ pc' = "while"
                /\ board_count' = board_count + 1
                /\ total_cost' = total_cost + best[1].board[3]
                /\ board_solution' = Append(board_solution, best[1].board)
                /\ cutting_plan' = cutting_plan \o
                       tag_placements(best[1].panel.placements, board_count + 1)
                /\ pieces' = remove_packed(pieces, best[1].packed_indices)
                /\ panel' = best[1].panel
    /\ UNCHANGED <<required_pieces, available_boards, arg, pos>>

(* Lines 125-126: the loop condition fails and the function returns         *)
(* (cutting_plan, board_solution, total_cost).                              *)
Return ==
    /\ pc = "while"
    /\ pieces = <<>>
    /\ pc' = "done"
    /\ UNCHANGED <<required_pieces, available_boards, pieces, total_cost,
                   board_solution, cutting_plan, board_count, panel, arg, pos>>

OptimizeNext == Start \/ Iteration \/ Return

Next == TryPlace \/ OptimizeNext

(* Both clients. *)
Spec == Init /\ [][Next]_vars

(* One Panel under arbitrary try_place calls. *)
PanelSpec == InitPanel /\ [][TryPlace]_vars

(* One call of optimize_purchase; the function is sequential code, so a     *)
(* step that can be taken is taken.                                         *)
OptimizeSpec == InitOptimize /\ [][OptimizeNext]_vars /\ WF_vars(OptimizeNext)

(***************************************************************************)
(* Vocabulary of the properties                                             *)
(***************************************************************************)
Range(s) == {s[k] : k \in 1..Len(s)}

Last(s) == s[Len(s)]

Min(S) == CHOOSE m \in S : \A n \in S : m <= n

(* Two rectangles <<x, y, w, h, ...>> share positive area. *)
Overlap(r1, r2) ==
    /\ r1[1] < r2[1] + r2[3]
    /\ r2[1] < r1[1] + r1[3]
    /\ r1[2] < r2[2] + r2[4]
    /\ r2[2] < r1[2] + r1[4]

(* A rectangle <<x, y, w, h, ...>> lies inside a width x height board. *)
Inside(r, width, height) ==
    /\ 0 <= r[1]
    /\ 0 <= r[2]
    /\ r[1] + r[3] <= width
    /\ r[2] + r[4] <= height

PairwiseDisjoint(rs) ==
    \A i \in 1..Len(rs), j \in 1..Len(rs) : i < j => ~Overlap(rs[i], rs[j])

RECURSIVE SumAreas(_)
SumAreas(rs) ==
    IF rs = <<>> THEN 0 ELSE Head(rs)[3] * Head(rs)[4] + SumAreas(Tail(rs))

RECURSIVE SumCosts(_)
SumCosts(boards) ==
    IF boards = <<>> THEN 0 ELSE Head(boards)[3] + SumCosts(Tail(boards))

(* The piece a plan placement was cut for: the rotation undone. *)
Unrotated(pl) == IF pl[6] THEN <<pl[4], pl[3]>> ELSE <<pl[3], pl[4]>>

(* How many copies of the piece p the input asks for. *)
RECURSIVE RequiredCount(_, _)
RequiredCount(required, p) ==
    IF required = <<>> THEN 0
    ELSE (IF <<Head(required)[1], Head(required)[2]>> = p THEN Head(required)[3] ELSE 0)
         + RequiredCount(Tail(required), p)

RECURSIVE TotalQuantity(_)
TotalQuantity(required) ==
    IF required = <<>> THEN 0 ELSE Head(required)[3] + TotalQuantity(Tail(required))

PlacedCount(plan, p) == Cardinality({k \in 1..Len(plan) : Unrotated(plan[k]) = p})

PlanOn(n) == SelectSeq(cutting_plan, LAMBDA pl : pl[5] = n)

(* The piece fits the board type in one of the two orientations. *)
Fits(p, board) ==
    \/ p[1] <= board[1] /\ p[2] <= board[2]
    \/ p[2] <= board[1] /\ p[1] <= board[2]

FitsSomeBoard(p) == \E k \in 1..Len(available_boards) : Fits(p, available_boards[k])

SomeRequiredPieceFitsNoBoard ==
    \E k \in 1..Len(required_pieces) : ~FitsSomeBoard(required_pieces[k])

Running == pc \in {"while", "done", "raised"}

(* A step of the while-loop body; one that commits a board. *)
IterationStep == pc = "while" /\ pieces # <<>>

CommitStep == IterationStep /\ pc' = "while"

(***************************************************************************)
(* C1: when optimize_purchase returns, the placed pieces, rotation undone,  *)
(* are exactly the required pieces with their quantities: none missing,     *)
(* none duplicated, none resized.                                           *)
(***************************************************************************)
C1_PlanIsRequiredMultiset ==
    pc = "done" =>
        /\ Len(cutting_plan) = TotalQuantity(required_pieces)
        /\ \A p \in {<<s[1], s[2]>> : s \in Range(required_pieces)}
                    \cup {Unrotated(pl) : pl \in Range(cutting_plan)} :
               PlacedCount(cutting_plan, p) = RequiredCount(required_pieces, p)

(* A returned plan over two boards with a rotated piece and two piece shapes. *)
C1_Witness ==
    /\ pc = "done"
    /\ board_count >= 2
    /\ Cardinality({Unrotated(pl) : pl \in Range(cutting_plan)}) >= 2
    /\ \E pl \in Range(cutting_plan) : pl[6]

(***************************************************************************)
(* C2: every placement lies inside its board: on a Panel after any          *)
(* try_place calls, and in the cutting plan against                         *)
(* board_solution[board_number - 1].                                        *)
(***************************************************************************)
C2_PlacementsInsideBoard ==
    /\ \A k \in 1..Len(panel.placements) :
           Inside(panel.placements[k], panel.width, panel.height)
    /\ \A k \in 1..Len(cutting_plan) :
           LET n == cutting_plan[k][5]
           IN  /\ n \in 1..Len(board_solution)
               /\ Inside(cutting_plan[k], board_solution[n][1], board_solution[n][2])

(* A plan with a placement away from the origin that ends on its board's edge. *)
C2_Witness ==
    /\ pc = "done"
    /\ \E pl \in Range(cutting_plan) :
           /\ pl[1] + pl[2] > 0
           /\ pl[1] + pl[3] = board_solution[pl[5]][1]
           /\ pl[2] + pl[4] = board_solution[pl[5]][2]

(***************************************************************************)
(* C3: the run raises exactly when some required piece fits no catalog      *)
(* board type in either orientation, and returns a complete plan otherwise. *)
(* The error is raised in exactly those iterations in which no pending      *)
(* piece fits any board type (every board type packs zero pieces); once     *)
(* raised, nothing is returned.                                             *)
(***************************************************************************)
C3_RaisesIffUnpackable ==
    [][/\ IterationStep =>
              (pc' = "raised" <=> \A k \in 1..Len(pieces) : ~FitsSomeBoard(pieces[k]))
       /\ IterationStep /\ pc' = "raised" =>
              \A b \in 1..Len(available_boards) :
                  simulate(available_boards[b], pieces).panel.placements = <<>>
       /\ pc' = "raised" => SomeRequiredPieceFitsNoBoard
       /\ pc' = "done" =>
              /\ ~SomeRequiredPieceFitsNoBoard
              /\ Len(cutting_plan') = TotalQuantity(required_pieces)
       /\ pc = "raised" => pc' = "raised"]_vars

(* The failure comes after a board was bought for the pieces that do fit.   *)
C3_Witness == pc = "raised" /\ board_count >= 1 /\ available_boards # <<>>

(***************************************************************************)
(* C4: after every commit and at return, total_cost is the sum of the unit  *)
(* costs in board_solution, len(board_solution) is the highest board        *)
(* ordinal of the plan (0 for an empty plan), every purchased board carries *)
(* a placement and the ordinals run 1..len(board_solution) in               *)
(* non-decreasing order through the plan.                                   *)
(***************************************************************************)
C4_CostAndOrdinals ==
    Running =>
        /\ total_cost = SumCosts(board_solution)
        /\ board_count = Len(board_solution)
        /\ \A k \in 1..Len(cutting_plan) : cutting_plan[k][5] \in 1..Len(board_solution)
        /\ \A n \in 1..Len(board_solution) : \E k \in 1..Len(cutting_plan) : cutting_plan[k][5] = n
        /\ \A k \in 1..Len(cutting_plan) - 1 : cutting_plan[k][5] <= cutting_plan[k + 1][5]

(* Boards of two different unit costs were bought. *)
C4_Witness ==
    /\ pc = "done"
    /\ Len(board_solution) >= 2
    /\ \E i, j \in 1..Len(board_solution) : board_solution[i][3] # board_solution[j][3]

(***************************************************************************)
(* C5: the selection loop terminates: each iteration either raises or       *)
(* leaves the pending list shorter, so with N expanded pieces there are at  *)
(* most N iterations and at most N boards, and the run ends (returned or    *)
(* raised).                                                                 *)
(***************************************************************************)
C5_LoopTerminates ==
    /\ [][/\ IterationStep =>
                 \/ pc' = "raised"
                 \/ Len(pieces') < Len(pieces) /\ board_count' = board_count + 1
          /\ Running' =>
                 /\ board_count' + Len(pieces') <= TotalQuantity(required_pieces)
                 /\ board_count' + (IF pc' = "raised" THEN 1 ELSE 0)
                        <= TotalQuantity(required_pieces)]_vars
    /\ <>(pc \in {"done", "raised"})

(* A run that needed as many iterations as there are pieces. *)
C5_Witness ==
    /\ pc = "done"
    /\ board_count = TotalQuantity(required_pieces)
    /\ board_count >= 3

(***************************************************************************)
(* C6: the committed board type is the first, in catalog order, of the      *)
(* board types that packed a piece and whose cost per packed piece area is  *)
(* lowest; the area is that of the pieces packed, not of the board.         *)
(***************************************************************************)
PackedBy(k) == simulate(available_boards[k], pieces).panel

(* placed[k] is the panel board type k leaves; cost(j) / area(j) <           *)
(* cost(k) / area(k) with the areas of the placed pieces.                   *)
StrictlyMoreEfficient(placed, j, k) ==
    available_boards[j][3] * SumAreas(placed[k].placements)
        < available_boards[k][3] * SumAreas(placed[j].placements)

FirstMostEfficient(placed, candidates, k) ==
    \A j \in candidates :
        /\ ~StrictlyMoreEfficient(placed, j, k)
        /\ j < k => StrictlyMoreEfficient(placed, k, j)

C6_CommitsFirstMostEfficient ==
    [][CommitStep =>
          \E placed \in {[k \in 1..Len(available_boards) |-> PackedBy(k)]} :
          \E candidates \in {{k \in 1..Len(available_boards) : placed[k].placements # <<>>}} :
              /\ candidates # {}
              /\ \E k \in candidates :
                     /\ FirstMostEfficient(placed, candidates, k)
                     /\ \A j \in candidates : FirstMostEfficient(placed, candidates, j) => j = k
                     /\ Last(board_solution') = available_boards[k]
                     /\ total_cost' = total_cost + available_boards[k][3]
                     /\ panel' = placed[k]]_vars

(* The second, costlier and larger board type was bought first although the *)
(* first, cheaper one could have taken a piece.                             *)
C6_Witness ==
    /\ Running
    /\ Len(available_boards) >= 2
    /\ board_count >= 1
    /\ board_solution[1] = available_boards[2]
    /\ available_boards[1][3] < available_boards[2][3]
    /\ available_boards[1][1] * available_boards[1][2]
           < available_boards[2][1] * available_boards[2][2]
    /\ \E k \in 1..Len(required_pieces) : Fits(required_pieces[k], available_boards[1])

(***************************************************************************)
(* C7: try_place is first-fit with the unrotated orientation first: the     *)
(* piece goes to the origin of the first free rectangle, in list order,     *)
(* that holds it unrotated; failing that, to the first that holds it        *)
(* rotated, with the placed sides swapped; failing both it returns None and *)
(* changes nothing.  The first piece on a fresh board lands at (0, 0).      *)
(***************************************************************************)
FitIndices(free, w, h) == {i \in 1..Len(free) : free[i][3] >= w /\ free[i][4] >= h}

C7_FirstFitUnrotatedFirst ==
    [][pc = "panel" =>
        LET free == panel.free_rectangles
            pw == arg'[1]
            ph == arg'[2]
            U == FitIndices(free, pw, ph)
            R == FitIndices(free, ph, pw)
        IN  /\ U # {} =>
                /\ pos' = <<free[Min(U)][1], free[Min(U)][2], pw, ph, FALSE>>
                /\ panel'.placements = Append(panel.placements, pos')
            /\ U = {} /\ R # {} =>
                /\ pos' = <<free[Min(R)][1], free[Min(R)][2], ph, pw, TRUE>>
                /\ panel'.placements = Append(panel.placements, pos')
            /\ U = {} /\ R = {} => pos' = None /\ panel' = panel
            /\ pos' = None => U = {} /\ R = {}
            /\ panel.placements = <<>> /\ pos' # None => pos'[1] = 0 /\ pos'[2] = 0]_vars

(* A piece that fits only rotated, placed into the second free rectangle    *)
(* of the list although no rectangle holds it unrotated.                    *)
C7_Witness ==
    /\ pc = "panel"
    /\ pos # None
    /\ pos[5]
    /\ pos[1] + pos[2] > 0
    /\ arg[1] # arg[2]
    /\ Len(panel.placements) >= 2

(***************************************************************************)
(* C8 as stated: no try_place call leaves the free list shorter.            *)
(***************************************************************************)
C8_FreeListNeverShrinks ==
    [][Len(panel'.free_rectangles) >= Len(panel.free_rectangles)]_vars

(***************************************************************************)
(* C8 amended: a call changes the length of the free list by                *)
(* -1 + [leftover width > 0] + [leftover height > 0] when it places the     *)
(* piece and by 0 when it does not; the list is shorter after the call      *)
(* exactly when the placed piece fills the matched free rectangle in both   *)
(* dimensions, and then by one.                                             *)
(***************************************************************************)
MatchedRectangle(free, position) ==
    CHOOSE f \in Range(free) : f[1] = position[1] /\ f[2] = position[2]

C8_FreeListShrinksOnlyOnExactFit ==
    [][pc = "panel" =>
        LET before == Len(panel.free_rectangles)
            after == Len(panel'.free_rectangles)
        IN  IF pos' = None THEN after = before
            ELSE LET f == MatchedRectangle(panel.free_rectangles, pos')
                     exact == f[3] = pos'[3] /\ f[4] = pos'[4]
                 IN  /\ after = before - 1
                                + (IF f[3] > pos'[3] THEN 1 ELSE 0)
                                + (IF f[4] > pos'[4] THEN 1 ELSE 0)
                     /\ after >= before - 1
                     /\ after < before <=> exact]_vars

(* A piece exactly filled the last free rectangle of a board that had been  *)
(* split before.                                                            *)
C8_Witness ==
    /\ pc = "panel"
    /\ pos # None
    /\ panel.free_rectangles = <<>>
    /\ Len(panel.placements) >= 2

(***************************************************************************)
(* C9 as stated: when a placement splits the matched free rectangle into a  *)
(* right strip and a strip below, the two strips share area (the region     *)
(* beyond (w, h)).                                                          *)
(***************************************************************************)
C9_SplitStripsOverlap ==
    [][pc = "panel"
       /\ Len(panel'.free_rectangles) = Len(panel.free_rectangles) + 1 =>
          LET free == panel'.free_rectangles
          IN  Overlap(free[Len(free) - 1], free[Len(free)])]_vars

(***************************************************************************)
(* C9 amended: the free rectangles of one board are pairwise disjoint: the  *)
(* right strip has the height of the placed piece only, so it ends where    *)
(* the strip below begins, and no sequence of try_place calls reaches a     *)
(* state in which two free rectangles share area.                           *)
(***************************************************************************)
C9_FreeRectanglesDisjoint ==
    /\ PairwiseDisjoint(panel.free_rectangles)
    /\ \A k \in 1..Len(panel.free_rectangles) :
           /\ panel.free_rectangles[k][3] > 0
           /\ panel.free_rectangles[k][4] > 0
           /\ Inside(panel.free_rectangles[k], panel.width, panel.height)

(* Three free rectangles after two splits that each left both strips. *)
C9_Witness ==
    /\ pc = "panel"
    /\ Len(panel.placements) = 2
    /\ Len(panel.free_rectangles) = 3

(***************************************************************************)
(* C10: placements on one board never overlap: on a Panel the placements    *)
(* are pairwise disjoint and disjoint from every free rectangle; in the     *)
(* cutting plan the placements of one board_number are pairwise disjoint    *)
(* and their total area is at most the area of the board.                   *)
(***************************************************************************)
C10_PlacementsDisjoint ==
    /\ PairwiseDisjoint(panel.placements)
    /\ \A i \in 1..Len(panel.placements), j \in 1..Len(panel.free_rectangles) :
           ~Overlap(panel.placements[i], panel.free_rectangles[j])
    /\ SumAreas(panel.placements) <= panel.width * panel.height
    /\ \A n \in 1..Len(board_solution) :
           /\ PairwiseDisjoint(PlanOn(n))
           /\ SumAreas(PlanOn(n)) <= board_solution[n][1] * board_solution[n][2]

(* A returned plan with three pieces cut from one board. *)
C10_Witness ==
    /\ pc = "done"
    /\ \E n \in 1..Len(board_solution) : Len(PlanOn(n)) >= 3

====
